---- MODULE Spec2Model ----
(***************************************************************************)
(* Job tree action handlers of Zowe Explorer                               *)
(* (packages/zowe-explorer/src/job/actions.ts).                            *)
(*                                                                         *)
(* One handler invocation runs at a time.  Every collaborator call of a    *)
(* handler is one step; a call the handler does not await leaves its       *)
(* promise in `pending`, to be settled by the host at any later time.      *)
(* `calls` is the trace of collaborator calls of the current invocation.   *)
(***************************************************************************)
EXTENDS Integers, Sequences, FiniteSets, TLC

\* ---------------------------------------------------------------- bounds
MaxSel == 2          \* longest tree-view selection passed to deleteCommand
MaxChildren == 2     \* most children a session node returns

\* ---------------------------------------------------------------- values
\* An optional value: <<>> is undefined, <<v>> is the value v.
Undefined == <<>>
Some(v) == <<v>>
IsDefined(o) == o # <<>>
ValueOf(o) == o[1]

\* ValidProfileEnum of @zowe/zowe-explorer-api, as used by the gates.
ValidProfileEnum == {"VALID", "UNVERIFIED", "INVALID"}

JobA == [jobname |-> "A", jobid |-> "1"]
JobB == [jobname |-> "B", jobid |-> "2"]
JobC == [jobname |-> "C", jobid |-> "3"]
Jobs == {JobA, JobB, JobC}

\* Tree nodes that can be selected: job nodes, and a node without a job.
JobNode(j) == [job |-> Some(j)]
SessionOnlyNode == [job |-> Undefined]
SelectableNodes == {JobNode(JobA), JobNode(JobB), SessionOnlyNode}

\* Session names and labels are sequences of characters, so that trim()
\* is a computation.
SessionNames == {<<"a">>, <<"a", " ">>, <<" ", "b">>}
JobIds == {"1", "2"}
Dirs == {"/out"}
Inputs == {"", "x"}
Owners == {"NEWOWN"}
Responses == {"OK"}
JclTexts == {"//A JOB"}

\* ---------------------------------------------------------------- helpers
RECURSIVE TrimStart(_)
TrimStart(s) == IF s # <<>> /\ Head(s) = " " THEN TrimStart(Tail(s)) ELSE s

RECURSIVE TrimEnd(_)
TrimEnd(s) ==
    IF s # <<>> /\ s[Len(s)] = " " THEN TrimEnd(SubSeq(s, 1, Len(s) - 1)) ELSE s

\* String.prototype.trim
Trim(s) == TrimEnd(TrimStart(s))

\* Array.prototype.find, as the index of the first element that satisfies the
\* test, given the set of indices that satisfy it (0 when find returns undefined).
FirstIndex(S) ==
    IF S = {} THEN 0 ELSE CHOOSE k \in S : \A m \in S : k <= m

\* Array-to-string coercion of `"..." + deletedNodes`: elements joined by ",".
RECURSIVE Join(_)
Join(seq) ==
    IF seq = <<>> THEN ""
    ELSE IF Len(seq) = 1 THEN seq[1]
         ELSE seq[1] \o "," \o Join(Tail(seq))

\* Sequences over S, without repetition, of length at most n.
RECURSIVE SeqsUpTo(_, _)
SeqsUpTo(S, n) ==
    IF n = 0 THEN {<<>>}
    ELSE LET shorter == SeqsUpTo(S, n - 1)
         IN shorter \cup {Append(q, x) : q \in shorter, x \in S}

Distinct(seq) == \A i, j \in DOMAIN seq : i # j => seq[i] # seq[j]

\* ---------------------------------------------------------------- state
VARIABLES
    pc,             \* position of the running handler ("idle", "done", or a step)
    handler,        \* name of the handler invoked last
    arg,            \* its arguments
    local,          \* its local variables
    outcome,        \* "running", "returned", or "threw" (exception left the handler)
    calls,          \* collaborator calls of this invocation, in order
    pending,        \* promises of calls in flight (not yet settled)
    validProfile,   \* Profiles.getInstance().validProfile
    mSessionNodes,  \* jobsProvider.mSessionNodes
    jobFields       \* owner and prefix of the job node handed to the handler

vars == <<pc, handler, arg, local, outcome, calls, pending, validProfile,
          mSessionNodes, jobFields>>

env == <<validProfile, mSessionNodes, jobFields>>

Entry(op, a) == [op |-> op, arg |-> a]
Logged(op, a) == Append(calls, Entry(op, a))
Count(op) == Cardinality({k \in DOMAIN calls : calls[k].op = op})
Called(op) == \E k \in DOMAIN calls : calls[k].op = op

\* A collaborator call that fails is logged as the call followed by "error".
Failed(op, a) == calls \o <<Entry(op, a), Entry("error", op)>>

\* errorHandling(error, label, error.message)
errorHandling(trace) == Append(trace, Entry("errorHandling", "reported"))

SessionNode(label) == [label |-> label, searchId |-> Undefined]

\* The job node a handler is handed carries an owner and a prefix.
InitialJobFields == [owner |-> Some("IBMUSER"), prefix |-> Some("*")]

Init ==
    /\ pc = "idle"
    /\ handler = "none"
    /\ arg = [none |-> TRUE]
    /\ local = [none |-> TRUE]
    /\ outcome = "returned"
    /\ calls = <<>>
    /\ pending = <<>>
    /\ validProfile \in ValidProfileEnum
    /\ mSessionNodes \in {<<>>} \cup {<<SessionNode(l)>> : l \in SessionNames}
    /\ jobFields = InitialJobFields

\* The handler returns normally / lets an exception escape.
Return(trace) ==
    /\ pc' = "done"
    /\ outcome' = "returned"
    /\ calls' = trace

Throw(trace) ==
    /\ pc' = "done"
    /\ outcome' = "threw"
    /\ calls' = trace

\* catch (error) { await errorHandling(...); } followed by the end of the handler
CatchAndReturn(trace) == Return(errorHandling(trace))

\* The user triggers a command: the handler starts with fresh locals and an
\* empty trace, once the promises of the previous command have settled.
Start(h, a, first) ==
    /\ pc \in {"idle", "done"}
    /\ pending = <<>>
    /\ handler' = h
    /\ arg' = a
    /\ local' = [none |-> TRUE]
    /\ outcome' = "running"
    /\ calls' = <<>>
    /\ pc' = first
    /\ jobFields' = InitialJobFields
    /\ UNCHANGED <<pending, validProfile, mSessionNodes>>

\* ---------------------------------------------------------------- downloadSpool
InvokeDownloadSpool ==
    \E j \in Jobs : Start("downloadSpool", [job |-> j], "ds_dialog")

\* const dirUri = await vscode.window.showOpenDialog(...)
DownloadSpoolDialog ==
    /\ pc = "ds_dialog"
    /\ \/ \E d \in Dirs :
            /\ local' = [dirUri |-> Some(d)]
            /\ calls' = Logged("showOpenDialog", Some(d))
            /\ pc' = "ds_download"
            /\ UNCHANGED outcome
       \/ /\ local' = [dirUri |-> Undefined]
          /\ calls' = Logged("showOpenDialog", Undefined)
          /\ pc' = "ds_download"
          /\ UNCHANGED outcome
       \/ /\ CatchAndReturn(Failed("showOpenDialog", Undefined))
          /\ UNCHANGED local
    /\ UNCHANGED <<handler, arg, pending, env>>

DownloadRequest == [jobid |-> arg.job.jobid, jobname |-> arg.job.jobname,
                    outDir |-> ValueOf(local.dirUri)]

\* if (dirUri !== undefined) { getJesApi(...).downloadSpoolContent({...}); }
\* The promise of downloadSpoolContent is not awaited.
DownloadSpoolRequest ==
    /\ pc = "ds_download"
    /\ IF IsDefined(local.dirUri)
       THEN \/ /\ pending' = <<Entry("downloadSpoolContent", DownloadRequest)>>
               /\ Return(Logged("downloadSpoolContent", DownloadRequest))
            \/ /\ CatchAndReturn(Failed("downloadSpoolContent", DownloadRequest))
               /\ UNCHANGED pending
       ELSE /\ Return(calls)
            /\ UNCHANGED pending
    /\ UNCHANGED <<handler, arg, local, env>>

\* ---------------------------------------------------------------- getSpoolContent
\* toUniqueJobFileUri(session, spool)(refreshTimestamp.toString())
toUniqueJobFileUri(session, spool, refreshTimestamp) ==
    <<session, spool, refreshTimestamp>>

IsValidOrUnverifiedLax(v) == v \in {"VALID", "UNVERIFIED", "INVALID"}

\* validProfile === ValidProfileEnum.VALID || validProfile === ValidProfileEnum.UNVERIFIED
IsValidOrUnverified(v) == v = "VALID" \/ v = "UNVERIFIED"

InvokeGetSpoolContent ==
    Start("getSpoolContent",
          [session |-> "s1", spool |-> "JESMSGLG", refreshTimestamp |-> 1],
          "gs_load")

\* zosmfProfile = profiles.loadNamedProfile(session), in its own try/catch
GetSpoolContentLoad ==
    /\ pc = "gs_load"
    /\ \/ /\ calls' = Logged("loadNamedProfile", arg.session)
          /\ pc' = "gs_check"
          /\ UNCHANGED outcome
       \/ CatchAndReturn(Failed("loadNamedProfile", arg.session))
    /\ UNCHANGED <<handler, arg, local, pending, env>>

\* await profiles.checkCurrentProfile(zosmfProfile), outside any try
GetSpoolContentCheck ==
    /\ pc = "gs_check"
    /\ \/ \E v \in ValidProfileEnum :
            /\ validProfile' = v
            /\ calls' = Logged("checkCurrentProfile", v)
            /\ pc' = "gs_gate"
            /\ UNCHANGED outcome
       \/ /\ Throw(Failed("checkCurrentProfile", "rejected"))
          /\ UNCHANGED validProfile
    /\ UNCHANGED <<handler, arg, local, pending, mSessionNodes, jobFields>>

\* if (VALID || UNVERIFIED) { try { await showTextDocument(uri) } catch ... }
GetSpoolContentShow ==
    /\ pc = "gs_gate"
    /\ LET uri == toUniqueJobFileUri(arg.session, arg.spool, arg.refreshTimestamp)
       IN IF IsValidOrUnverified(validProfile)
          THEN \/ Return(Logged("showTextDocument", uri))
               \/ CatchAndReturn(Failed("showTextDocument", uri))
          ELSE Return(calls)
    /\ UNCHANGED <<handler, arg, local, pending, env>>

\* ---------------------------------------------------------------- refreshJobsServer
InvokeRefreshJobsServer ==
    \E j \in Jobs : Start("refreshJobsServer", [node |-> JobNode(j)], "rs_check")

\* jobsProvider.checkCurrentProfile(node): called, not awaited.  The provider
\* either has updated validProfile when the call returns, or updates it when
\* its promise settles.
RefreshJobsServerCheck ==
    /\ pc = "rs_check"
    /\ \/ \E v \in ValidProfileEnum :
            /\ local' = [checked |-> v]
            /\ calls' = Logged("checkCurrentProfile", v)
            /\ pc' = "rs_gate"
            /\ \/ /\ validProfile' = v
                  /\ UNCHANGED pending
               \/ /\ pending' = <<Entry("checkCurrentProfile", v)>>
                  /\ UNCHANGED validProfile
            /\ UNCHANGED outcome
       \/ /\ Throw(Failed("checkCurrentProfile", "threw"))
          /\ UNCHANGED <<local, pending, validProfile>>
    /\ UNCHANGED <<handler, arg, mSessionNodes, jobFields>>

\* if (validProfile is VALID or UNVERIFIED) { await jobsProvider.refreshElement(node); }
RefreshJobsServerRefresh ==
    /\ pc = "rs_gate"
    /\ IF IsValidOrUnverified(validProfile)
       THEN \/ Return(Logged("refreshElement", arg.node))
            \/ Throw(Failed("refreshElement", arg.node))
       ELSE Return(calls)
    /\ UNCHANGED <<handler, arg, local, pending, env>>

\* ---------------------------------------------------------------- refreshJob
InvokeRefreshJob ==
    \E j \in Jobs : Start("refreshJob", [job |-> JobNode(j)], "rj_refresh")

\* jobsProvider.refreshElement(job)
RefreshJob ==
    /\ pc = "rj_refresh"
    /\ \/ Return(Logged("refreshElement", arg.job))
       \/ Throw(Failed("refreshElement", arg.job))
    /\ UNCHANGED <<handler, arg, local, pending, env>>

\* ---------------------------------------------------------------- downloadJcl
InvokeDownloadJcl ==
    \E j \in Jobs : Start("downloadJcl", [job |-> j], "dj_get")

\* const jobJcl = await getJesApi(job.getProfile()).getJclForJob(job.job)
DownloadJclGet ==
    /\ pc = "dj_get"
    /\ \/ \E t \in JclTexts :
            /\ local' = [jobJcl |-> t]
            /\ calls' = Logged("getJclForJob", arg.job)
            /\ pc' = "dj_open"
            /\ UNCHANGED outcome
       \/ /\ CatchAndReturn(Failed("getJclForJob", arg.job))
          /\ UNCHANGED local
    /\ UNCHANGED <<handler, arg, pending, env>>

\* const jclDoc = await openTextDocument({ language: "jcl", content: jobJcl })
DownloadJclOpen ==
    /\ pc = "dj_open"
    /\ LET doc == [language |-> "jcl", content |-> local.jobJcl] IN
       \/ /\ calls' = Logged("openTextDocument", doc)
          /\ pc' = "dj_show"
          /\ UNCHANGED outcome
       \/ CatchAndReturn(Failed("openTextDocument", doc))
    /\ UNCHANGED <<handler, arg, local, pending, env>>

\* await vscode.window.showTextDocument(jclDoc)
DownloadJclShow ==
    /\ pc = "dj_show"
    /\ LET doc == [language |-> "jcl", content |-> local.jobJcl] IN
       \/ Return(Logged("showTextDocument", doc))
       \/ CatchAndReturn(Failed("showTextDocument", doc))
    /\ UNCHANGED <<handler, arg, local, pending, env>>

\* ---------------------------------------------------------------- focusOnJob
FindSessionNodeExact(nodes, sessionName) ==
    FirstIndex({k \in DOMAIN nodes : nodes[k].label = sessionName})

\* mSessionNodes.find((jobNode) => jobNode.label.trim() === sessionName.trim())
FindSessionNode(nodes, sessionName) ==
    FirstIndex({k \in DOMAIN nodes : Trim(nodes[k].label) = Trim(sessionName)})

\* mSessionNodes.find((jobNode) => jobNode.label === sessionName)
FindAddedSessionNode(nodes, sessionName) ==
    FirstIndex({k \in DOMAIN nodes : nodes[k].label = sessionName})

FindFirstJob(jobs, jobId) == IF jobs = <<>> THEN 0 ELSE 1

\* jobs.find((jobNode) => jobNode.job.jobid === jobId)
FindJob(jobs, jobId) == FirstIndex({k \in DOMAIN jobs : jobs[k].jobid = jobId})

\* jobsProvider.addSession(sessionName), when it succeeds: the tree gains a
\* session node labelled with the name it was given.
addSession(nodes, sessionName) == Append(nodes, SessionNode(sessionName))

InvokeFocusOnJob ==
    \E n \in SessionNames, id \in JobIds :
        Start("focusOnJob", [sessionName |-> n, jobId |-> id], "fj_find")

\* let sessionNode = mSessionNodes.find(...); if (!sessionNode) { ... }
FocusOnJobFind ==
    /\ pc = "fj_find"
    /\ LET found == FindSessionNode(mSessionNodes, arg.sessionName) IN
       /\ local' = [sessionNode |-> found, added |-> FALSE]
       /\ pc' = IF found = 0 THEN "fj_add" ELSE "fj_refresh"
    /\ UNCHANGED <<handler, arg, outcome, calls, pending, env>>

\* try { await jobsProvider.addSession(sessionName) } catch { report; return }
\* sessionNode = mSessionNodes.find(label === sessionName)
FocusOnJobAddSession ==
    /\ pc = "fj_add"
    /\ \/ /\ mSessionNodes' = addSession(mSessionNodes, arg.sessionName)
          /\ local' = [sessionNode |->
                           FindAddedSessionNode(mSessionNodes', arg.sessionName),
                       added |-> TRUE]
          /\ calls' = Logged("addSession", arg.sessionName)
          /\ pc' = "fj_refresh"
          /\ UNCHANGED outcome
       \/ /\ CatchAndReturn(Failed("addSession", arg.sessionName))
          /\ UNCHANGED <<local, mSessionNodes>>
    /\ UNCHANGED <<handler, arg, pending, validProfile, jobFields>>

\* try { jobsProvider.refreshElement(sessionNode) } catch { report; return }
FocusOnJobRefresh ==
    /\ pc = "fj_refresh"
    /\ \/ /\ calls' = Logged("refreshElement", local.sessionNode)
          /\ pc' = "fj_search"
          /\ UNCHANGED outcome
       \/ CatchAndReturn(Failed("refreshElement", local.sessionNode))
    /\ UNCHANGED <<handler, arg, local, pending, env>>

\* sessionNode.searchId = jobId   (a TypeError when sessionNode is undefined)
FocusOnJobSearchId ==
    /\ pc = "fj_search"
    /\ IF local.sessionNode = 0
       THEN /\ Throw(Append(calls, Entry("error", "TypeError")))
            /\ UNCHANGED mSessionNodes
       ELSE /\ mSessionNodes' =
                  [mSessionNodes EXCEPT ![local.sessionNode].searchId = Some(arg.jobId)]
            /\ calls' = Logged("searchId", arg.jobId)
            /\ pc' = "fj_children"
            /\ UNCHANGED outcome
    /\ UNCHANGED <<handler, arg, local, pending, validProfile, jobFields>>

\* const jobs = await sessionNode.getChildren()
FocusOnJobChildren ==
    /\ pc = "fj_children"
    /\ \/ \E js \in SeqsUpTo(Jobs, MaxChildren) :
            /\ Distinct(js)
            /\ local' = [sessionNode |-> local.sessionNode, added |-> local.added,
                         jobs |-> js]
            /\ calls' = Logged("getChildren", mSessionNodes[local.sessionNode].searchId)
            /\ pc' = "fj_select"
            /\ UNCHANGED outcome
       \/ /\ Throw(Failed("getChildren", mSessionNodes[local.sessionNode].searchId))
          /\ UNCHANGED local
    /\ UNCHANGED <<handler, arg, pending, env>>

\* const job = jobs.find(...); if (job) { setItem(getTreeView(), job) }
FocusOnJobSelect ==
    /\ pc = "fj_select"
    /\ LET job == FindJob(local.jobs, arg.jobId) IN
       IF job # 0
       THEN Return(Logged("setItem", local.jobs[job]))
       ELSE Return(calls)
    /\ UNCHANGED <<handler, arg, local, pending, env>>

\* ---------------------------------------------------------------- modifyCommand
\* `f ${job.job.jobname},${command}`
ModifyCommandString(jobname, command) == "f " \o jobname \o "," \o command

\* `p ${job.job.jobname}`
StopCommandString(jobname) == "p " \o jobname

IsTruthy(command) == IsDefined(command) /\ ValueOf(command) # ""

\* command !== undefined
CommandEntered(command) == IsDefined(command)

InvokeModifyCommand ==
    \E j \in Jobs : Start("modifyCommand", [job |-> j], "mc_input")

\* const command = await vscode.window.showInputBox(...)
ModifyCommandInput ==
    /\ pc = "mc_input"
    /\ \/ \E c \in {Undefined} \cup {Some(i) : i \in Inputs} :
            /\ local' = [command |-> c]
            /\ calls' = Logged("showInputBox", c)
            /\ pc' = "mc_issue"
            /\ UNCHANGED outcome
       \/ /\ CatchAndReturn(Failed("showInputBox", Undefined))
          /\ UNCHANGED local
    /\ UNCHANGED <<handler, arg, pending, env>>

\* if (command !== undefined) { issueSimple(job.getSession(), `f ...`) ... }
ModifyCommandIssue ==
    /\ pc = "mc_issue"
    /\ IF CommandEntered(local.command)
       THEN /\ calls' = Logged("issueSimple",
                   ModifyCommandString(arg.job.jobname, ValueOf(local.command)))
            /\ pc' = "mc_await"
            /\ UNCHANGED outcome
       ELSE Return(calls)
    /\ UNCHANGED <<handler, arg, local, pending, env>>

\* const response = await issueSimple(...); showInformationMessage(... + response)
ModifyCommandResponse ==
    /\ pc = "mc_await"
    /\ \/ \E r \in Responses :
            Return(calls \o <<Entry("settled", "issueSimple"),
                              Entry("showInformationMessage", "Command response: " \o r)>>)
       \/ CatchAndReturn(Append(calls, Entry("error", "issueSimple")))
    /\ UNCHANGED <<handler, arg, local, pending, env>>

\* ---------------------------------------------------------------- stopCommand
InvokeStopCommand ==
    \E j \in Jobs : Start("stopCommand", [job |-> j], "sc_issue")

\* issueSimple(job.getSession(), `p ${job.job.jobname}`)
StopCommandIssue ==
    /\ pc = "sc_issue"
    /\ calls' = Logged("issueSimple", StopCommandString(arg.job.jobname))
    /\ pc' = "sc_await"
    /\ UNCHANGED <<handler, arg, local, outcome, pending, env>>

\* const response = await issueSimple(...); showInformationMessage(... + response)
StopCommandResponse ==
    /\ pc = "sc_await"
    /\ \/ \E r \in Responses :
            Return(calls \o <<Entry("settled", "issueSimple"),
                              Entry("showInformationMessage", "Command response: " \o r)>>)
       \/ CatchAndReturn(Append(calls, Entry("error", "issueSimple")))
    /\ UNCHANGED <<handler, arg, local, pending, env>>

\* ---------------------------------------------------------------- setOwner / setPrefix
InvokeSetOwner == Start("setOwner", [job |-> JobNode(JobA)], "so_input")

\* const newOwner = await vscode.window.showInputBox(...), outside any try
SetOwnerInput ==
    /\ pc = "so_input"
    /\ \/ \E o \in {Undefined} \cup {Some(v) : v \in Owners} :
            /\ local' = [newOwner |-> o]
            /\ calls' = Logged("showInputBox", o)
            /\ pc' = "so_assign"
            /\ UNCHANGED outcome
       \/ /\ Throw(Failed("showInputBox", Undefined))
          /\ UNCHANGED local
    /\ UNCHANGED <<handler, arg, pending, env>>

\* job.owner = newOwner; jobsProvider.refreshElement(job);
SetOwnerAssign ==
    /\ pc = "so_assign"
    /\ jobFields' = [jobFields EXCEPT !.owner = local.newOwner]
    /\ LET assigned == Logged("assign", <<"owner", local.newOwner>>) IN
       \/ Return(Append(assigned, Entry("refreshElement", arg.job)))
       \/ Throw(assigned \o <<Entry("refreshElement", arg.job),
                              Entry("error", "refreshElement")>>)
    /\ UNCHANGED <<handler, arg, local, pending, validProfile, mSessionNodes>>

InvokeSetPrefix == Start("setPrefix", [job |-> JobNode(JobA)], "sp_input")

\* const newPrefix = await vscode.window.showInputBox(...), outside any try
SetPrefixInput ==
    /\ pc = "sp_input"
    /\ \/ \E o \in {Undefined} \cup {Some(v) : v \in Owners} :
            /\ local' = [newPrefix |-> o]
            /\ calls' = Logged("showInputBox", o)
            /\ pc' = "sp_assign"
            /\ UNCHANGED outcome
       \/ /\ Throw(Failed("showInputBox", Undefined))
          /\ UNCHANGED local
    /\ UNCHANGED <<handler, arg, pending, env>>

\* job.prefix = newPrefix; jobsProvider.refreshElement(job);
SetPrefixAssign ==
    /\ pc = "sp_assign"
    /\ jobFields' = [jobFields EXCEPT !.prefix = local.newPrefix]
    /\ LET assigned == Logged("assign", <<"prefix", local.newPrefix>>) IN
       \/ Return(Append(assigned, Entry("refreshElement", arg.job)))
       \/ Throw(assigned \o <<Entry("refreshElement", arg.job),
                              Entry("error", "refreshElement")>>)
    /\ UNCHANGED <<handler, arg, local, pending, validProfile, mSessionNodes>>

\* ---------------------------------------------------------------- deleteCommand
\* selectedNodes.filter((jobNode) => jobNode.job !== undefined && jobNode.job !== null)
JobNodesOf(selection) == SelectSeq(selection, LAMBDA n : IsDefined(n.job))

\* " " + node.job.jobname + "(" + node.job.jobid + ")"
DeletedLabel(node) ==
    " " \o ValueOf(node.job).jobname \o "(" \o ValueOf(node.job).jobid \o ")"

\* Array.prototype.unshift
Unshift(list, x) == <<x>> \o list

Shift(list) == Tail(list)

\* Array.prototype.pop
Pop(list) == SubSeq(list, 1, Len(list) - 1)

\* "The following jobs were deleted:" + deletedNodes
DeleteMultiMessage(deletedNodes) ==
    [text |-> "The following jobs were deleted:" \o Join(deletedNodes),
     items |-> deletedNodes]

\* "Job " + jobname + "(" + jobid + ")" + " deleted"
DeleteSingleMessage(node) ==
    [text |-> "Job " \o ValueOf(node.job).jobname \o "(" \o ValueOf(node.job).jobid
                  \o ")" \o " deleted",
     items |-> <<DeletedLabel(node)>>]

InvokeDeleteCommand ==
    \E sel \in SeqsUpTo(SelectableNodes, MaxSel),
       j \in {Undefined, Some(JobNode(JobC)), Some(JobNode(JobA))} :
        /\ Distinct(sel)
        /\ Start("deleteCommand", [job |-> j, selection |-> sel], "dc_start")

\* deletedNodes = [" "]; nodes = getTreeView().selection.filter(...)
DeleteCommandStart ==
    /\ pc = "dc_start"
    /\ LET nodes == JobNodesOf(arg.selection) IN
       /\ local' = [deletedNodes |-> <<" ">>, nodes |-> nodes, i |-> 1]
       /\ pc' = IF Len(nodes) > 0 THEN "dc_loop" ELSE "dc_single"
    /\ calls' = Logged("getTreeView", arg.selection)
    /\ UNCHANGED <<handler, arg, outcome, pending, env>>

\* for (const node of nodes) { await jobsProvider.delete(node); ... : the call
DeleteCommandDelete ==
    /\ pc = "dc_loop"
    /\ \/ /\ calls' = Logged("delete", local.nodes[local.i])
          /\ pending' = <<Entry("delete", local.nodes[local.i])>>
          /\ pc' = "dc_await"
          /\ UNCHANGED outcome
       \/ /\ Throw(Failed("delete", local.nodes[local.i]))
          /\ UNCHANGED pending
    /\ UNCHANGED <<handler, arg, local, env>>

\* ... : the await, then deletedNodes.unshift(" " + jobname + "(" + jobid + ")")
DeleteCommandAwait ==
    /\ pc = "dc_await"
    /\ pending' = <<>>
    /\ \/ /\ calls' = Logged("settled", "delete")
          /\ local' = [local EXCEPT
                 !.deletedNodes = Unshift(@, DeletedLabel(local.nodes[local.i])),
                 !.i = @ + 1]
          /\ pc' = IF local.i < Len(local.nodes) THEN "dc_loop" ELSE "dc_notify"
          /\ UNCHANGED outcome
       \/ /\ Throw(Append(calls, Entry("error", "delete")))
          /\ UNCHANGED local
    /\ UNCHANGED <<handler, arg, env>>

\* deletedNodes.pop(); showInformationMessage("The following ..." + deletedNodes)
DeleteCommandNotify ==
    /\ pc = "dc_notify"
    /\ local' = [local EXCEPT !.deletedNodes = Pop(@)]
    /\ calls' = Logged("showInformationMessage",
                       DeleteMultiMessage(local'.deletedNodes))
    /\ pc' = "dc_single"
    /\ UNCHANGED <<handler, arg, outcome, pending, env>>

\* if (job && !(nodes.length > 0)) { jobsProvider.delete(job); showInformationMessage(...) }
\* The promise of delete is not awaited here.
DeleteCommandSingle ==
    /\ pc = "dc_single"
    /\ IF IsDefined(arg.job) /\ ~(Len(local.nodes) > 0)
       THEN \/ /\ calls' = calls \o
                      <<Entry("delete", ValueOf(arg.job)),
                        Entry("showInformationMessage",
                              DeleteSingleMessage(ValueOf(arg.job)))>>
               /\ pending' = <<Entry("delete", ValueOf(arg.job))>>
               /\ pc' = "dc_broadcast"
               /\ UNCHANGED outcome
            \/ /\ Throw(Failed("delete", ValueOf(arg.job)))
               /\ UNCHANGED pending
       ELSE /\ pc' = "dc_broadcast"
            /\ UNCHANGED <<calls, outcome, pending>>
    /\ UNCHANGED <<handler, arg, local, env>>

\* vscode.commands.executeCommand("zowe.jobs.refreshAllJobs"): the call
DeleteCommandBroadcast ==
    /\ pc = "dc_broadcast"
    /\ calls' = Logged("executeCommand", "zowe.jobs.refreshAllJobs")
    /\ pc' = "dc_refreshed"
    /\ UNCHANGED <<handler, arg, local, outcome, pending, env>>

\* await vscode.commands.executeCommand(...): the await
DeleteCommandRefreshed ==
    /\ pc = "dc_refreshed"
    /\ \/ Return(calls)
       \/ Throw(Append(calls, Entry("error", "executeCommand")))
    /\ UNCHANGED <<handler, arg, local, pending, env>>

\* ---------------------------------------------------------------- promises
\* A promise nobody awaits is settled by the host: fulfilled, or rejected
\* with nobody to catch the rejection.
\* Positions the handler passes without yielding to the event loop, and the
\* position where the handler itself awaits the pending promise.
SynchronousPoints == {"rs_gate", "dc_broadcast", "dc_await"}

SettleUnawaited ==
    /\ pending # <<>>
    /\ pc \notin SynchronousPoints
    /\ LET p == pending[1] IN
       \/ /\ calls' = Logged("settled", p.op)
          /\ validProfile' = IF p.op = "checkCurrentProfile" THEN p.arg
                             ELSE validProfile
       \/ /\ calls' = calls \o <<Entry("error", p.op),
                                 Entry("unhandledRejection", p.op)>>
          /\ UNCHANGED validProfile
    /\ pending' = <<>>
    /\ UNCHANGED <<pc, handler, arg, local, outcome, mSessionNodes, jobFields>>

Next ==
    \/ InvokeDownloadSpool
    \/ DownloadSpoolDialog
    \/ DownloadSpoolRequest
    \/ InvokeGetSpoolContent
    \/ GetSpoolContentLoad
    \/ GetSpoolContentCheck
    \/ GetSpoolContentShow
    \/ InvokeRefreshJobsServer
    \/ RefreshJobsServerCheck
    \/ RefreshJobsServerRefresh
    \/ InvokeRefreshJob
    \/ RefreshJob
    \/ InvokeDownloadJcl
    \/ DownloadJclGet
    \/ DownloadJclOpen
    \/ DownloadJclShow
    \/ InvokeFocusOnJob
    \/ FocusOnJobFind
    \/ FocusOnJobAddSession
    \/ FocusOnJobRefresh
    \/ FocusOnJobSearchId
    \/ FocusOnJobChildren
    \/ FocusOnJobSelect
    \/ InvokeModifyCommand
    \/ ModifyCommandInput
    \/ ModifyCommandIssue
    \/ ModifyCommandResponse
    \/ InvokeStopCommand
    \/ StopCommandIssue
    \/ StopCommandResponse
    \/ InvokeSetOwner
    \/ SetOwnerInput
    \/ SetOwnerAssign
    \/ InvokeSetPrefix
    \/ SetPrefixInput
    \/ SetPrefixAssign
    \/ InvokeDeleteCommand
    \/ DeleteCommandStart
    \/ DeleteCommandDelete
    \/ DeleteCommandAwait
    \/ DeleteCommandNotify
    \/ DeleteCommandSingle
    \/ DeleteCommandBroadcast
    \/ DeleteCommandRefreshed
    \/ SettleUnawaited

Spec == Init /\ [][Next]_vars

\* ================================================================ properties
Finished == pc = "done"

\* The call of `op` failed (threw, or its promise was rejected).
CallFailed(op) ==
    \E k \in DOMAIN calls : calls[k].op = "error" /\ calls[k].arg = op

\* Positions of the calls of `op` in the trace.
At(op) == {k \in DOMAIN calls : calls[k].op = op}

\* The prompt of the running handler resolved to undefined.
PromptCancelled ==
    \/ "dirUri" \in DOMAIN local /\ local.dirUri = Undefined
    \/ "command" \in DOMAIN local /\ local.command = Undefined
    \/ "newOwner" \in DOMAIN local /\ local.newOwner = Undefined
    \/ "newPrefix" \in DOMAIN local /\ local.newPrefix = Undefined

\* C1: once a handler has ended and its promises are settled, a collaborator
\* failure during it has led to exactly one errorHandling call, and no
\* exception or rejection has escaped the handler.
C1_EveryErrorReportedOnce ==
    (Finished /\ pending = <<>> /\ Called("error")) =>
        /\ Count("errorHandling") = 1
        /\ outcome = "returned"
        /\ ~Called("unhandledRejection")

\* C2: when the prompt of a handler was cancelled, the handler has made no
\* download request, issued no command, assigned no node field and requested
\* no tree refresh.
C2_CancelDoesNothing ==
    PromptCancelled =>
        /\ ~Called("downloadSpoolContent")
        /\ ~Called("issueSimple")
        /\ ~Called("assign")
        /\ ~Called("refreshElement")
        /\ jobFields = InitialJobFields

SelectedJobs == {k \in DOMAIN arg.selection : arg.selection[k].job # Undefined}

ExpectedLabel(node) == " " \o node.job[1].jobname \o "(" \o node.job[1].jobid \o ")"

\* Every call the handler itself makes precedes position k of the trace.
LastHandlerCall(k) ==
    \A m \in DOMAIN calls :
        calls[m].op \in {"getTreeView", "delete", "showInformationMessage",
                         "executeCommand"} => m <= k

\* C3: when deleteCommand has returned: with n >= 1 selected job nodes there
\* were n deletions, one per selected job node, and one notification listing
\* exactly those n jobs; with no selected job node and a job argument there
\* was one deletion and one notification naming that job; in both branches the
\* refreshAllJobs broadcast was issued exactly once, as the handler's last call.
C3_DeleteCommandCounts ==
    (handler = "deleteCommand" /\ Finished /\ outcome = "returned") =>
        LET n == Cardinality(SelectedJobs)
            notes == At("showInformationMessage")
        IN /\ n >= 1 =>
                /\ Count("delete") = n
                /\ \A s \in SelectedJobs :
                      Cardinality({k \in At("delete") :
                                      calls[k].arg = arg.selection[s]}) = 1
                /\ Cardinality(notes) = 1
                /\ \A k \in notes :
                      /\ Len(calls[k].arg.items) = n
                      /\ {calls[k].arg.items[m] : m \in 1..n} =
                             {ExpectedLabel(arg.selection[s]) : s \in SelectedJobs}
           /\ (n = 0 /\ arg.job # Undefined) =>
                /\ Count("delete") = 1
                /\ \A k \in At("delete") : calls[k].arg = arg.job[1]
                /\ Cardinality(notes) = 1
                /\ \A k \in notes :
                      calls[k].arg.items = <<ExpectedLabel(arg.job[1])>>
           /\ (n >= 1 \/ arg.job # Undefined) =>
                /\ Count("executeCommand") = 1
                /\ \A k \in At("executeCommand") :
                      /\ calls[k].arg = "zowe.jobs.refreshAllJobs"
                      /\ LastHandlerCall(k)

C3_Witness ==
    /\ handler = "deleteCommand" /\ Finished /\ outcome = "returned"
    /\ arg.selection = <<JobNode(JobA), JobNode(JobB)>>
    /\ Count("delete") = 2
    /\ \E k \in At("showInformationMessage") :
          calls[k].arg.text = "The following jobs were deleted: B(2), A(1)"

\* C4: getSpoolContent shows a document only when the profile was loaded and
\* the validity the check left is VALID or UNVERIFIED; when loading the
\* profile fails the error is reported once and the handler ends with no
\* validity check and no document.
C4_SpoolDocumentGate ==
    handler = "getSpoolContent" =>
        /\ Called("showTextDocument") =>
              /\ ~CallFailed("loadNamedProfile")
              /\ validProfile \in {"VALID", "UNVERIFIED"}
              /\ \E k \in At("checkCurrentProfile") :
                    calls[k].arg \in {"VALID", "UNVERIFIED"}
        /\ CallFailed("loadNamedProfile") =>
              /\ Finished /\ outcome = "returned"
              /\ Count("errorHandling") = 1
              /\ ~Called("checkCurrentProfile")
              /\ ~Called("showTextDocument")

C4_Witness ==
    /\ handler = "getSpoolContent" /\ Finished
    /\ validProfile = "UNVERIFIED"
    /\ Called("showTextDocument") /\ ~Called("error")

TrimmedMatches ==
    {k \in DOMAIN mSessionNodes :
        Trim(mSessionNodes[k].label) = Trim(arg.sessionName)}

\* C5: focusOnJob calls addSession only when no session node matches the
\* session name by trimmed label, and at most once; when addSession succeeded
\* the node it created is the one the handler goes on with; the tree never
\* holds two session nodes matching the name.
C5_SessionCreatedOnce ==
    handler = "focusOnJob" =>
        /\ Count("addSession") <= 1
        /\ Cardinality(TrimmedMatches) <= 1
        /\ pc = "fj_add" => TrimmedMatches = {}
        /\ (Called("addSession") /\ ~CallFailed("addSession")) =>
              /\ TrimmedMatches = {Len(mSessionNodes)}
              /\ local.sessionNode = Len(mSessionNodes)
              /\ mSessionNodes[local.sessionNode].label = arg.sessionName
        /\ pc \in {"fj_refresh", "fj_search", "fj_children", "fj_select"} =>
              local.sessionNode \in TrimmedMatches
        /\ (Finished /\ ~Called("addSession")) => TrimmedMatches # {}

C5_Witness ==
    /\ handler = "focusOnJob" /\ Finished
    /\ Called("addSession") /\ ~CallFailed("addSession")
    /\ Len(mSessionNodes) = 2
    /\ Called("setItem")

\* C6: modifyCommand has, when it ended, issued exactly one command
\* "f <jobname>,<input>" if an input was entered (the empty string included)
\* and none if the prompt was cancelled; stopCommand has issued exactly one
\* command "p <jobname>" and shown no input box; in both a response
\* notification comes only after the command has returned.
C6_CommandStrings ==
    /\ (handler = "modifyCommand" /\ Finished /\ "command" \in DOMAIN local) =>
          IF local.command # Undefined
          THEN /\ Count("issueSimple") = 1
               /\ \A k \in At("issueSimple") :
                     calls[k].arg = "f " \o arg.job.jobname \o "," \o local.command[1]
          ELSE Count("issueSimple") = 0
    /\ (handler = "modifyCommand" /\ "command" \notin DOMAIN local) =>
          Count("issueSimple") = 0
    /\ (handler = "stopCommand" /\ Finished) =>
          /\ Count("issueSimple") = 1
          /\ \A k \in At("issueSimple") : calls[k].arg = "p " \o arg.job.jobname
          /\ ~Called("showInputBox")
    /\ handler \in {"modifyCommand", "stopCommand"} =>
          \A k \in At("showInformationMessage") :
              \E m \in 1..(k - 1) :
                  calls[m].op = "settled" /\ calls[m].arg = "issueSimple"

C6_Witness ==
    /\ handler = "modifyCommand" /\ Finished
    /\ arg.job = JobA
    /\ "command" \in DOMAIN local /\ local.command = Some("")
    /\ \E k \in At("issueSimple") : calls[k].arg = "f A,"
    /\ Called("showInformationMessage")

\* C7: when downloadSpool has ended and its request is settled: a picked
\* folder led to exactly one download request for the job into that folder,
\* and a failed download was reported through errorHandling.
C7_DownloadFailureReported ==
    (handler = "downloadSpool" /\ Finished /\ pending = <<>>) =>
        /\ ("dirUri" \in DOMAIN local /\ local.dirUri # Undefined) =>
              /\ Count("downloadSpoolContent") = 1
              /\ \A k \in At("downloadSpoolContent") :
                    calls[k].arg = [jobid |-> arg.job.jobid,
                                    jobname |-> arg.job.jobname,
                                    outDir |-> local.dirUri[1]]
        /\ CallFailed("downloadSpoolContent") => Count("errorHandling") = 1

\* C8: when refreshJobsServer has returned, it has asked the provider to
\* refresh the node if and only if the validity its check produced is VALID
\* or UNVERIFIED.
C8_RefreshIffCheckValid ==
    (handler = "refreshJobsServer" /\ Finished /\ "checked" \in DOMAIN local) =>
        (Called("refreshElement") <=> local.checked \in {"VALID", "UNVERIFIED"})

SearchIdBeforeChildren ==
    \A k \in At("getChildren") :
        /\ calls[k].arg = Some(arg.jobId)
        /\ \E m \in 1..(k - 1) : calls[m].op = "searchId" /\ calls[m].arg = arg.jobId

MatchingChildren == {k \in DOMAIN local.jobs : local.jobs[k].jobid = arg.jobId}

SelectionMatchesChildren ==
    IF "jobs" \in DOMAIN local
    THEN Finished =>
            IF MatchingChildren # {}
            THEN /\ Count("setItem") = 1
                 /\ \A k \in At("setItem") : calls[k].arg.jobid = arg.jobId
            ELSE /\ ~Called("setItem")
                 /\ ~Called("errorHandling")
                 /\ outcome = "returned"
    ELSE ~Called("setItem")

AddSessionAborts ==
    CallFailed("addSession") =>
        /\ Finished /\ outcome = "returned"
        /\ Count("errorHandling") = 1
        /\ ~Called("refreshElement")
        /\ ~Called("searchId")
        /\ ~Called("getChildren")
        /\ ~Called("setItem")

\* C9 as stated: if addSession fails the error is reported and nothing else
\* happens; in every other run that has ended the searchId was set to the
\* job id before the children were fetched and setItem was called exactly for
\* a matching child.
C9_FocusOnJobAsStated ==
    (handler = "focusOnJob" /\ Finished) =>
        /\ AddSessionAborts
        /\ ~CallFailed("addSession") =>
              /\ Called("searchId")
              /\ SearchIdBeforeChildren
              /\ SelectionMatchesChildren

\* C9 amended: if addSession fails or the refreshElement call throws, the
\* error is reported once and the handler ends with no searchId assignment,
\* no fetch and no selection; in every other run the searchId is set to the
\* job id before the children are fetched, and setItem is called, once and
\* with the matching child, exactly when the fetched children hold one; with
\* no matching child the handler returns without selecting or reporting.
C9_FocusOnJobAmended ==
    handler = "focusOnJob" =>
        /\ AddSessionAborts
        /\ CallFailed("refreshElement") =>
              /\ Finished /\ outcome = "returned"
              /\ Count("errorHandling") = 1
              /\ ~Called("searchId")
              /\ ~Called("getChildren")
              /\ ~Called("setItem")
        /\ (Finished /\ ~CallFailed("addSession") /\ ~CallFailed("refreshElement")) =>
              /\ Count("searchId") = 1
              /\ mSessionNodes[local.sessionNode].searchId = Some(arg.jobId)
        /\ SearchIdBeforeChildren
        /\ SelectionMatchesChildren

C9_Witness ==
    /\ handler = "focusOnJob" /\ Finished
    /\ CallFailed("refreshElement")
    /\ ~CallFailed("addSession")
    /\ Count("errorHandling") = 1

DeletesBefore(k) == Cardinality({m \in 1..(k - 1) : calls[m].op = "delete"})

DeletesOverBefore(k) ==
    Cardinality({m \in 1..(k - 1) :
        calls[m].op \in {"settled", "error"} /\ calls[m].arg = "delete"})

\* C10: in deleteCommand, whenever the "deleted" notification is shown or the
\* refreshAllJobs broadcast is issued, every deletion requested before it has
\* completed.
C10_DeletesCompleteFirst ==
    handler = "deleteCommand" =>
        \A k \in At("showInformationMessage") \cup At("executeCommand") :
            DeletesBefore(k) = DeletesOverBefore(k)

====
